---- MODULE Spec2Model ----
(***************************************************************************)
(* Model of Agent01/selfImprovingAgent.py: a factory that returns an agent *)
(* whose state (version, description, power_function) lives in closure     *)
(* cells, with the operations run, self_improve and iterative_improvement, *)
(* and the script's __main__ block.                                        *)
(*                                                                         *)
(* The module is either executed as a script (name = "__main__") or        *)
(* imported by a client that calls the factory and the three operations in *)
(* any order (name = "imported").  Execution is single-threaded: one call  *)
(* is active at a time.                                                    *)
(***************************************************************************)
EXTENDS Integers, Sequences, FiniteSets, TLC

\* Bounds of the model (client side only; the script's constants are below).
MaxAgents == 2
MaxVersion == 4
MaxIterations == 2
MaxDelay == 1

\* Constants of the script, lines 87 and 90.
MainInput == 2
MainIterations == 3
MainDelay == 2

VARIABLES
    name,            \* __name__ of the module: "__main__" or "imported"
    pc,              \* position of the module-level code
    version,         \* version[a]: closure cell `version` of agent a
    description,     \* description[a]: closure cell `description` of agent a
    power_function,  \* power_function[a]: closure cell `power_function` of agent a
    frame,           \* the current (or latest) call made by the client or the script
    log              \* effects (print calls, time.sleep calls), in order: of the
                     \* whole script when run as __main__, of the latest client
                     \* call otherwise

vars == <<name, pc, version, description, power_function, frame, log>>

-----------------------------------------------------------------------------
\* Values passed as input_value: integers and one value that is no number.
Num(v) == [type |-> "int", val |-> v]
Str == [type |-> "str"]
NumInputs == {-3, 0, 2}
Values == {Num(v) : v \in NumInputs} \cup {Str}
Faults == {"defined", "raises", "undefined"}

\* x ** n for integers x and n >= 0 (Python integers do not overflow).
RECURSIVE Pow(_, _)
Pow(x, n) == IF n = 0 THEN 1 ELSE x * Pow(x, n - 1)

\* The two kinds of function objects the agent installs.
Lambda == [name |-> "<lambda>", exponent |-> 2]
Improved(e) == [name |-> "improved_power_function", exponent |-> e]

\* The two description strings; exponent is the number the text states.
BasicDescription == [text |-> "Basic power function: squaring input.", exponent |-> 2]
EnhancedDescription(n) ==
    [text |-> "Enhanced power function: raising input to the power of {}.", exponent |-> n]

\* The effects a call can have on the outside world.
StartBanner == [print |-> "Starting Self-Improving Agent Demo..."]
CompleteBanner == [print |-> "Demo complete."]
RunHeader == [print |-> "\n--- Running Agent ---"]
ImproveHeader == [print |-> "--- Initiating Self-Improvement ---"]
VersionLine(v, d) == [print |-> "[Version {}] {}", version |-> v, description |-> d]
IOLine(x, r) == [print |-> "Input: {} --> Output: {}", input_value |-> x, result |-> r]
UpgradeLine(v) ==
    [print |-> "Agent self-improvement complete. Upgraded to version {}.", version |-> v]
Sleep(d) == [sleep |-> d]

\* Variant of Call: x * exponent in place of x ** exponent.
CallTimes(f, x) ==
    IF x.type = "int"
    THEN [exc |-> "none", value |-> x.val * f.exponent]
    ELSE [exc |-> "TypeError", value |-> 0]

\* power_function(input_value): x ** exponent, TypeError when x is no number.
Call(f, x) ==
    IF x.type = "int"
    THEN [exc |-> "none", value |-> Pow(x.val, f.exponent)]
    ELSE [exc |-> "TypeError", value |-> 0]

\* The closure cells right after the factory's first three statements.
InitialState ==
    [version |-> 1, description |-> BasicDescription, power_function |-> Lambda]

\* The closure cells of agent a, as one record.
St(a) ==
    [version |-> version[a], description |-> description[a],
     power_function |-> power_function[a]]

\* Variant of Store: one module-level variable shared by all agents.
StoreShared(cells, a, v) == [b \in DOMAIN cells |-> v]

\* Assignment to a closure cell of agent a: the cells of other agents are
\* different cells.
Store(cells, a, v) == [cells EXCEPT ![a] = v]

\* Variant of run: it counts its calls in version.
RunCounting(st, input_value) ==
    LET r == Call(st.power_function, input_value)
        st1 == [st EXCEPT !.version = st.version + 1]
    IN  IF r.exc # "none"
        THEN [st |-> st1, out |-> <<>>, exc |-> r.exc]
        ELSE [st |-> st1,
              out |-> <<VersionLine(st.version, st.description),
                        IOLine(input_value, r.value)>>,
              exc |-> "none"]

\* run(input_value): the result is computed first, then two lines are printed.
run(st, input_value) ==
    LET r == Call(st.power_function, input_value)
    IN  IF r.exc # "none"
        THEN [st |-> st, out |-> <<>>, exc |-> r.exc]
        ELSE [st |-> st,
              out |-> <<VersionLine(st.version, st.description),
                        IOLine(input_value, r.value)>>,
              exc |-> "none"]

\* Variant of NewExponent: the exponent the description announces.
NewExponentAhead(v) == v + 2

\* new_exponent = version + 1
NewExponent(v) == v + 1

\* Variant of NextVersion: the version skips one.
NextVersionSkipping(v) == v + 2

\* version += 1
NextVersion(v) == v + 1

\* The generated source text: one def, with the exponent formatted into it.
NewCode(new_exponent) ==
    [def |-> "improved_power_function", exponent |-> new_exponent]

\* exec(new_code, new_namespace): the namespace it leaves behind.  Whether
\* the environment compiles and runs the text is the environment's choice:
\* "defined" binds the def, "undefined" returns without binding it, and
\* "raises" is handled by the caller.
Exec(new_code, fault) ==
    IF fault = "defined"
    THEN [n \in {new_code.def} |-> Improved(new_code.exponent)]
    ELSE [n \in {} |-> Lambda]

\* Variant of self_improve: version is incremented before the code is
\* generated.
SelfImproveVersionFirst(st, fault) ==
    LET st0 == [st EXCEPT !.version = NextVersion(st.version)]
        new_code == NewCode(st0.version)
        new_namespace == Exec(new_code, fault)
    IN  IF fault = "raises"
        THEN [st |-> st0, out |-> <<>>, exc |-> "Exception"]
        ELSE IF "improved_power_function" \notin DOMAIN new_namespace
        THEN [st |-> st0, out |-> <<>>, exc |-> "KeyError"]
        ELSE LET st1 == [st0 EXCEPT !.power_function =
                                       new_namespace["improved_power_function"]]
                 st3 == [st1 EXCEPT !.description =
                                       EnhancedDescription(st1.version + 1)]
             IN  [st |-> st3, out |-> <<UpgradeLine(st3.version)>>, exc |-> "none"]

\* self_improve(), statement by statement.
self_improve(st, fault) ==
    LET new_exponent == NewExponent(st.version)
        new_code == NewCode(new_exponent)
        new_namespace == Exec(new_code, fault)
    IN  IF fault = "raises"
        THEN [st |-> st, out |-> <<>>, exc |-> "Exception"]
        ELSE IF "improved_power_function" \notin DOMAIN new_namespace
        THEN [st |-> st, out |-> <<>>, exc |-> "KeyError"]
        ELSE LET st1 == [st EXCEPT !.power_function =
                                       new_namespace["improved_power_function"]]
                 st2 == [st1 EXCEPT !.version = NextVersion(st1.version)]
                 st3 == [st2 EXCEPT !.description =
                                       EnhancedDescription(st2.version + 1)]
             IN  [st |-> st3, out |-> <<UpgradeLine(st3.version)>>, exc |-> "none"]

\* Variant of RangeHasNext: one round too many.
RangeHasNextInclusive(i, iterations) == i <= iterations

\* for _ in range(iterations): is there another round after i rounds?
RangeHasNext(i, iterations) == i < iterations

\* A call record: operation, agent, arguments, the closure cells at entry,
\* rounds completed, position in iterative_improvement, and outcome.
Frame(op, a, x, n, d, entry, i, at, status, exc) ==
    [op |-> op, agent |-> a, input_value |-> x, iterations |-> n, delay |-> d,
     entry |-> entry, i |-> i, pc |-> at, status |-> status, exc |-> exc]

NoCall == Frame("none", 0, Str, 0, 0, InitialState, 0, "-", "returned", "none")

\* The outcome of a completed direct call.
Outcome(exc) == IF exc = "none" THEN "returned" ELSE "raised"

\* Variant of Propagate: the loop body catches the exception and goes on.
Swallow(fr, exc, next) == [fr EXCEPT !.pc = next, !.exc = exc]

\* Nothing in iterative_improvement catches an exception: a callee's
\* exception ends the call, otherwise control moves to the next statement.
Propagate(fr, exc, next) ==
    IF exc = "none"
    THEN [fr EXCEPT !.pc = next]
    ELSE [fr EXCEPT !.status = "raised", !.exc = exc]

\* Where the script is after its call at line 90 moved to frame fr.
MainPc(fr) ==
    IF name # "__main__" THEN pc
    ELSE IF fr.status = "returned" THEN "l91"
    ELSE IF fr.status = "raised" THEN "crashed"
    ELSE pc

-----------------------------------------------------------------------------
Init ==
    /\ name \in {"__main__", "imported"}
    /\ pc = IF name = "__main__" THEN "l88" ELSE "client"
    /\ version = <<>>
    /\ description = <<>>
    /\ power_function = <<>>
    /\ frame = NoCall
    /\ log = <<>>

Idle == pc = "client" /\ frame.status # "running"

\* A client calls create_self_improving_agent().
Create ==
    /\ Idle
    /\ Len(version) < MaxAgents
    /\ version' = Append(version, InitialState.version)
    /\ description' = Append(description, InitialState.description)
    /\ power_function' = Append(power_function, InitialState.power_function)
    /\ frame' = Frame("create_self_improving_agent", Len(version) + 1, Str, 0, 0,
                      InitialState, 0, "-", "returned", "none")
    /\ log' = <<>>
    /\ UNCHANGED <<name, pc>>

\* A client calls agent["run"](x).
Run(a, x) ==
    /\ Idle
    /\ a \in DOMAIN version
    /\ LET r == run(St(a), x)
       IN  /\ version' = Store(version, a, r.st.version)
           /\ description' = Store(description, a, r.st.description)
           /\ power_function' = Store(power_function, a, r.st.power_function)
           /\ frame' = Frame("run", a, x, 0, 0, St(a), 0, "-", Outcome(r.exc), r.exc)
           /\ log' = r.out
    /\ UNCHANGED <<name, pc>>

\* A client calls agent["self_improve"]().
SelfImprove(a, fault) ==
    /\ Idle
    /\ a \in DOMAIN version
    /\ version[a] < MaxVersion
    /\ LET r == self_improve(St(a), fault)
       IN  /\ version' = Store(version, a, r.st.version)
           /\ description' = Store(description, a, r.st.description)
           /\ power_function' = Store(power_function, a, r.st.power_function)
           /\ frame' = Frame("self_improve", a, Str, 0, 0, St(a), 0, "-",
                             Outcome(r.exc), r.exc)
           /\ log' = r.out
    /\ UNCHANGED <<name, pc>>

\* A client calls agent["iterative_improvement"](x, n, d).
IterativeImprovement(a, x, n, d) ==
    /\ Idle
    /\ a \in DOMAIN version
    /\ version[a] + n <= MaxVersion
    /\ frame' = Frame("iterative_improvement", a, x, n, d, St(a), 0, "l72",
                      "running", "none")
    /\ log' = <<>>
    /\ UNCHANGED <<name, pc, version, description, power_function>>

InLoop(at) ==
    /\ frame.op = "iterative_improvement"
    /\ frame.status = "running"
    /\ frame.pc = at

\* Line 72: the loop header; the call returns when the range is exhausted.
LoopTest ==
    /\ InLoop("l72")
    /\ frame' = IF RangeHasNext(frame.i, frame.iterations)
                THEN [frame EXCEPT !.pc = "l73"]
                ELSE [frame EXCEPT !.status = "returned"]
    /\ pc' = MainPc(frame')
    /\ UNCHANGED <<name, version, description, power_function, log>>

\* Line 73.
PrintRunHeader ==
    /\ InLoop("l73")
    /\ log' = Append(log, RunHeader)
    /\ frame' = [frame EXCEPT !.pc = "l74"]
    /\ UNCHANGED <<name, pc, version, description, power_function>>

\* Line 74: run(input_value).
LoopRun ==
    /\ InLoop("l74")
    /\ LET a == frame.agent
           r == run(St(a), frame.input_value)
       IN  /\ version' = Store(version, a, r.st.version)
           /\ description' = Store(description, a, r.st.description)
           /\ power_function' = Store(power_function, a, r.st.power_function)
           /\ log' = log \o r.out
           /\ frame' = Propagate(frame, r.exc, "l75")
    /\ pc' = MainPc(frame')
    /\ UNCHANGED name

\* Line 75.
PrintImproveHeader ==
    /\ InLoop("l75")
    /\ log' = Append(log, ImproveHeader)
    /\ frame' = [frame EXCEPT !.pc = "l76"]
    /\ UNCHANGED <<name, pc, version, description, power_function>>

\* Line 76: self_improve().
LoopSelfImprove(fault) ==
    /\ InLoop("l76")
    /\ LET a == frame.agent
           r == self_improve(St(a), fault)
       IN  /\ version' = Store(version, a, r.st.version)
           /\ description' = Store(description, a, r.st.description)
           /\ power_function' = Store(power_function, a, r.st.power_function)
           /\ log' = log \o r.out
           /\ frame' = Propagate(frame, r.exc, "l77")
    /\ pc' = MainPc(frame')
    /\ UNCHANGED name

\* Variant of LoopSleep: no sleep after the last round.
LoopSleepBetweenRounds ==
    /\ InLoop("l77")
    /\ log' = IF frame.i + 1 < frame.iterations
              THEN Append(log, Sleep(frame.delay))
              ELSE log
    /\ frame' = [frame EXCEPT !.i = frame.i + 1, !.pc = "l72"]
    /\ UNCHANGED <<name, pc, version, description, power_function>>

\* Line 77: time.sleep(delay), which ends the round.
LoopSleep ==
    /\ InLoop("l77")
    /\ log' = Append(log, Sleep(frame.delay))
    /\ frame' = [frame EXCEPT !.i = frame.i + 1, !.pc = "l72"]
    /\ UNCHANGED <<name, pc, version, description, power_function>>

\* Line 88 of the script.
MainCreate ==
    /\ pc = "l88"
    /\ version' = Append(version, InitialState.version)
    /\ description' = Append(description, InitialState.description)
    /\ power_function' = Append(power_function, InitialState.power_function)
    /\ pc' = "l89"
    /\ UNCHANGED <<name, frame, log>>

\* Line 89.
MainStart ==
    /\ pc = "l89"
    /\ log' = Append(log, StartBanner)
    /\ pc' = "l90"
    /\ UNCHANGED <<name, version, description, power_function, frame>>

\* Line 90: the call; the script stays there until the call ends.
MainCall ==
    /\ pc = "l90"
    /\ frame.op = "none"
    /\ frame' = Frame("iterative_improvement", 1, Num(MainInput), MainIterations,
                      MainDelay, St(1), 0, "l72", "running", "none")
    /\ UNCHANGED <<name, pc, version, description, power_function, log>>

\* Line 91.
MainComplete ==
    /\ pc = "l91"
    /\ log' = Append(log, CompleteBanner)
    /\ pc' = "exit"
    /\ UNCHANGED <<name, version, description, power_function, frame>>

Next ==
    \/ Create
    \/ \E a \in 1..MaxAgents, x \in Values : Run(a, x)
    \/ \E a \in 1..MaxAgents, fault \in Faults : SelfImprove(a, fault)
    \/ \E a \in 1..MaxAgents, x \in Values, n \in 0..MaxIterations, d \in 0..MaxDelay :
          IterativeImprovement(a, x, n, d)
    \/ LoopTest
    \/ PrintRunHeader
    \/ LoopRun
    \/ PrintImproveHeader
    \/ \E fault \in Faults : LoopSelfImprove(fault)
    \/ LoopSleep
    \/ MainCreate
    \/ MainStart
    \/ MainCall
    \/ MainComplete

Spec == Init /\ [][Next]_vars

-----------------------------------------------------------------------------
\* Helpers of the properties.

Agents == DOMAIN version

IsLoopCall == frame.op = "iterative_improvement"

\* The effects of the call alone: the script's two banners are not the call's.
CallLog == SelectSeq(log, LAMBDA e : e # StartBanner /\ e # CompleteBanner)

Sleeps(s) == Len(SelectSeq(s, LAMBDA e : "sleep" \in DOMAIN e))

\* What round j (from 0) of a loop call entered in state st is to show.
RoundVersion(st, j) == st.version + j
RoundExponent(st, j) == IF j = 0 THEN st.power_function.exponent ELSE st.version + j
RoundDescription(st, j) ==
    IF j = 0 THEN st.description ELSE EnhancedDescription(st.version + j + 1)

RoundStart(st, x, j) ==
    <<RunHeader,
      VersionLine(RoundVersion(st, j), RoundDescription(st, j)),
      IOLine(x, Pow(x.val, RoundExponent(st, j))),
      ImproveHeader>>

ExpectedRound(st, x, d, j) ==
    RoundStart(st, x, j) \o <<UpgradeLine(RoundVersion(st, j) + 1), Sleep(d)>>

RECURSIVE ExpectedLog(_, _, _, _)
ExpectedLog(st, x, d, n) ==
    IF n = 0 THEN <<>>
    ELSE ExpectedLog(st, x, d, n - 1) \o ExpectedRound(st, x, d, n - 1)

\* A step that is a call of run, direct or from the loop.
RunStep ==
    \/ frame'.op = "run"
    \/ InLoop("l74")

\* A step that is a call of self_improve on agent a, direct or from the loop.
SelfImproveStep(a) ==
    \/ frame'.op = "self_improve" /\ frame'.agent = a
    \/ InLoop("l76") /\ frame.agent = a

CellsUnchanged(a) ==
    /\ version'[a] = version[a]
    /\ description'[a] = description[a]
    /\ power_function'[a] = power_function[a]

-----------------------------------------------------------------------------
\* C1: in every state, every agent's installed transform maps each numeric x
\* to x ** (version + 1) (so after k improvements of a fresh agent it is
\* x ** (k + 2), and run(2) shows 8 at version 2).
C1_TransformIsVersionPlusOne ==
    \A a \in Agents : \A x \in NumInputs :
        Call(power_function[a], Num(x)).value = Pow(x, version[a] + 1)

\* C2: when iterative_improvement returns, the agent's version is its version
\* at entry plus the number of iterations; from a fresh agent it is 1 + n.
C2_VersionAfterLoop ==
    (IsLoopCall /\ frame.status = "returned") =>
        /\ version[frame.agent] = frame.entry.version + frame.iterations
        /\ (frame.entry = InitialState => version[frame.agent] = 1 + frame.iterations)

C2_Witness ==
    /\ IsLoopCall
    /\ frame.status = "returned"
    /\ frame.entry = InitialState
    /\ frame.iterations >= 2
    /\ version[frame.agent] = 1 + frame.iterations

\* C3: in every step, no agent's version decreases; a successful self_improve
\* on an agent raises its version by exactly 1; and a version changes in no
\* other step.
C3_VersionSteps ==
    [][\A a \in Agents :
          /\ version'[a] >= version[a]
          /\ (SelfImproveStep(a) /\ frame'.exc = "none") => version'[a] = version[a] + 1
          /\ version'[a] # version[a] => (SelfImproveStep(a) /\ frame'.exc = "none")
      ]_vars

C3_Witness ==
    /\ frame.op = "self_improve"
    /\ frame.status = "returned"
    /\ frame.entry.version = 2
    /\ version[frame.agent] = 3

\* C4: a self_improve whose code generation fails (exec raises, or the new
\* function is not found) leaves version, description and transform of the
\* agent as they were and ends by raising.
C4_FailedImproveChangesNothing ==
    [][\A a \in Agents :
          (SelfImproveStep(a) /\ frame'.exc # "none") =>
              /\ CellsUnchanged(a)
              /\ frame'.status = "raised"
      ]_vars

C4_Witness ==
    /\ frame.op = "self_improve"
    /\ frame.status = "raised"
    /\ frame.exc = "KeyError"
    /\ frame.entry.version = 2
    /\ St(frame.agent) = frame.entry

\* C5: once run or self_improve has failed inside iterative_improvement, the
\* call has ended by raising, its effects stop at the header of the failed
\* operation (after frame.i complete rounds: no later run, self_improve or
\* sleep), and the script has crashed without its completion banner.
C5_FailFast ==
    (IsLoopCall /\ frame.exc # "none") =>
        /\ frame.status = "raised"
        /\ frame.i < frame.iterations
        /\ Sleeps(CallLog) = frame.i
        /\ CallLog =
              ExpectedLog(frame.entry, frame.input_value, frame.delay, frame.i)
              \o (IF frame.exc = "TypeError"
                  THEN <<RunHeader>>
                  ELSE RoundStart(frame.entry, frame.input_value, frame.i))
        /\ name = "__main__" =>
              /\ pc = "crashed"
              /\ \A k \in DOMAIN log : log[k] # CompleteBanner

C5_Witness ==
    /\ IsLoopCall
    /\ frame.status = "raised"
    /\ frame.i = 1
    /\ pc = "crashed"

\* C6: a returned iterative_improvement(x, n, delay) has done exactly n
\* rounds, each of header, run(x), header, self_improve(), sleep(delay), in
\* this order, so n sleeps in all; with n = 0 it has had no effect and the
\* agent is as it was at entry.
C6_LoopRounds ==
    (IsLoopCall /\ frame.status = "returned") =>
        /\ frame.i = frame.iterations
        /\ CallLog = ExpectedLog(frame.entry, frame.input_value, frame.delay,
                                 frame.iterations)
        /\ Sleeps(CallLog) = frame.iterations
        /\ Len(CallLog) = 6 * frame.iterations
        /\ frame.iterations = 0 =>
              /\ CallLog = <<>>
              /\ St(frame.agent) = frame.entry

C6_Witness ==
    /\ IsLoopCall
    /\ frame.status = "returned"
    /\ frame.iterations = 2
    /\ Sleeps(CallLog) = 2
    /\ log[Len(log)] = Sleep(frame.delay)

\* C7: a returned run(x) has printed exactly two lines, the first with the
\* agent's version and description, the second with x and the installed
\* transform's value at x; on a fresh agent these are version 1 and x * x.
C7_RunOutput ==
    (frame.op = "run" /\ frame.status = "returned") =>
        LET a == frame.agent
            x == frame.input_value
        IN  /\ x.type = "int"
            /\ Len(log) = 2
            /\ log[1] = VersionLine(version[a], description[a])
            /\ log[2] = IOLine(x, Pow(x.val, power_function[a].exponent))
            /\ frame.entry = InitialState =>
                  /\ log[1].version = 1
                  /\ log[2].result = x.val * x.val

C7_Witness ==
    /\ frame.op = "run"
    /\ frame.status = "returned"
    /\ frame.entry = InitialState
    /\ frame.input_value = Num(-3)
    /\ log[2].result = 9

\* C8: no call of run, returning or raising, direct or from the loop, changes
\* the version, description or transform of any agent.
C8_RunChangesNothing ==
    [][RunStep => UNCHANGED <<version, description, power_function>>]_vars

C8_Witness ==
    /\ frame.op = "run"
    /\ frame.status = "raised"
    /\ frame.entry.version = 2

\* C9: an agent that has been improved (version >= 2) has a transform whose
\* exponent is its version (the version before the last improvement plus 1)
\* and a description that states version + 1: one more than the transform
\* applies.
C9_DescriptionOneAhead ==
    \A a \in Agents :
        version[a] >= 2 =>
            /\ power_function[a] = Improved(version[a])
            /\ description[a] = EnhancedDescription(version[a] + 1)
            /\ description[a].exponent = power_function[a].exponent + 1

C9_Witness ==
    \E a \in Agents :
        /\ version[a] = 3
        /\ power_function[a].exponent = 3
        /\ description[a].exponent = 4

\* C10: a step leaves the cells of every agent other than the one the call
\* is made on as they were, and an agent that a step creates starts at
\* version 1 with the squaring transform.
C10_AgentsIndependent ==
    [][/\ \A b \in Agents : b # frame'.agent => CellsUnchanged(b)
       /\ \A b \in DOMAIN version' \ Agents :
             /\ version'[b] = 1
             /\ description'[b] = BasicDescription
             /\ power_function'[b] = Lambda
      ]_vars

C10_Witness ==
    /\ Len(version) = 2
    /\ version[1] = 3
    /\ version[2] = 1
    /\ frame.op = "self_improve"
    /\ frame.agent = 1

====
